---- MODULE Spec2Model ----
(***************************************************************************)
(* Model of parser.py: the bank-statement parser that turns the tables of  *)
(* a PDF statement into a date-sorted list of Transaction records and      *)
(* writes them to a CSV file.                                              *)
(*                                                                         *)
(* Text is modelled as a sequence of tokens.  A token is one character     *)
(* (" ", "\n", ",", "-", a digit, "R", "U", "B", "x") or an atomic word    *)
(* that the code only ever tests as a whole (a DD.MM.YYYY date, a          *)
(* HH:MM:SS time, a header phrase, a word of a description).  Cyrillic     *)
(* literals of the source are transliterated.  List indices are Python's   *)
(* plus one.                                                               *)
(***************************************************************************)
EXTENDS Integers, Sequences, FiniteSets, TLC

VARIABLES pc, fidx, nrows, tlen, ridx, header_row, desc_idx,
          operations, created, returned, exported, written, outcome,
          uncaught, badAt, last

vars == <<pc, fidx, nrows, tlen, ridx, header_row, desc_idx,
          operations, created, returned, exported, written, outcome,
          uncaught, badAt, last>>

(* ------------------------------ bounds -------------------------------- *)

\* rows of all the tables of one document
MaxRows == 4

(* ----------------------------- constants ------------------------------ *)

\* Python's None as a cell value
None == <<"<None>">>

DATE_HEADER == "Data i vremya"

\* 'Perevod mezhdu svoimi schetami'
TRANSFER == <<"Perevod", " ", "mezhdu", " ", "svoimi", " ", "schetami">>

\* 'Oplata tovarov i uslug. '
BOILERPLATE == <<"Oplata", " ", "tovarov", " ", "i", " ", "uslug.", " ">>

\* words of the credit table header
PROVEDENA == "Provedena"
ZADOLZHEN == "Zadolzhen"
DATA_IZMENENIYA == "Data izmeneniya"

\* the statement files of main(): (k1.pdf, credit), (d1.pdf, debit)
files == << [pdf |-> "k1.pdf", is_debit |-> FALSE],
            [pdf |-> "d1.pdf", is_debit |-> TRUE] >>

NFiles == Len(files)

(* ------------------------- Python primitives -------------------------- *)

\* characters matched by \s
IsWs(c) == c \in {" ", "\n"}

\* truthiness of a cell: neither None nor ''
Truthy(cell) == cell # None /\ cell # <<>>

RECURSIVE LStrip(_)
LStrip(s) == IF s # <<>> /\ IsWs(Head(s)) THEN LStrip(Tail(s)) ELSE s

RECURSIVE RStrip(_)
RStrip(s) ==
    IF s # <<>> /\ IsWs(s[Len(s)]) THEN RStrip(SubSeq(s, 1, Len(s) - 1)) ELSE s

\* str.strip()
Strip(s) == RStrip(LStrip(s))

\* CLEAN_PATTERN.sub(' ', s): every maximal run of whitespace becomes " "
RECURSIVE CleanSub(_)
CleanSub(s) ==
    IF s = <<>> THEN <<>>
    ELSE IF IsWs(Head(s)) THEN <<" ">> \o CleanSub(LStrip(Tail(s)))
    ELSE <<Head(s)>> \o CleanSub(Tail(s))

AmountJunk(c) == IsWs(c) \/ c \in {",", "R", "U", "B"}

KeepAmountChar(c) == ~AmountJunk(c)

\* AMOUNT_PATTERN.sub('', s): every ',', whitespace, 'R', 'U', 'B' is removed
AmountSub(s) == SelectSeq(s, KeepAmountChar)

\* sub in s (substring test)
Contains(s, sub) ==
    \E i \in 1..(Len(s) - Len(sub) + 1) : SubSeq(s, i, i + Len(sub) - 1) = sub

\* s.replace(sub, ''): leftmost non-overlapping occurrences are removed
RECURSIVE Remove(_, _)
Remove(s, sub) ==
    IF Len(s) < Len(sub) THEN s
    ELSE IF SubSeq(s, 1, Len(sub)) = sub
         THEN Remove(SubSeq(s, Len(sub) + 1, Len(s)), sub)
         ELSE <<Head(s)>> \o Remove(Tail(s), sub)

Digits == {"0", "1", "2", "3"}

DigitVal(c) == CASE c = "0" -> 0 [] c = "1" -> 1 [] c = "2" -> 2 [] OTHER -> 3

RECURSIVE DigitsVal(_)
DigitsVal(s) ==
    IF s = <<>> THEN 0
    ELSE 10 * DigitsVal(SubSeq(s, 1, Len(s) - 1)) + DigitVal(s[Len(s)])

AllDigits(s) == s # <<>> /\ \A i \in 1..Len(s) : s[i] \in Digits

\* float(s) succeeds: an optional sign followed by digits
FloatOk(s) ==
    \/ AllDigits(s)
    \/ s # <<>> /\ Head(s) = "-" /\ AllDigits(Tail(s))

\* float(s) when it succeeds
FloatVal(s) == IF Head(s) = "-" THEN 0 - DigitsVal(Tail(s)) ELSE DigitsVal(s)

\* DD.MM.YYYY texts; the last one matches DATE_PATTERN but is no calendar date
DateTokens == {"01.03.2024", "02.03.2024", "31.02.2024"}

ValidDates == {"01.03.2024", "02.03.2024"}

TimeTokens == {"10:00:00"}

\* the datetime of a valid date token, as a day number
DateVal(d) == IF d = "01.03.2024" THEN 1 ELSE 2

\* DATE_PATTERN.search(str(cell)): a DD.MM.YYYY text anywhere in the cell
DATE_PATTERN_search(cell) == \E i \in 1..Len(cell) : cell[i] \in DateTokens

\* datetime.strptime(s, DATE_FMT) succeeds
StrptimeOk(s) ==
    Len(s) = 3 /\ s[1] \in ValidDates /\ s[2] = " " /\ s[3] \in TimeTokens

(* --------------------------- field cleaning --------------------------- *)

clean_value(text, is_amount) ==
    IF ~Truthy(text) THEN <<>>
    ELSE LET t == Strip(CleanSub(text))
         IN  IF is_amount THEN AmountSub(t) ELSE t

\* parse_amount without the empty-text guard: float('') raises
parse_amount_unguarded(value) ==
    LET cleaned == clean_value(value, TRUE)
    IN  IF FloatOk(cleaned)
        THEN [exc |-> "none", val |-> FloatVal(cleaned)]
        ELSE [exc |-> "ValueError", val |-> 0]

parse_amount(value) ==
    LET cleaned == clean_value(value, TRUE)
    IN  IF cleaned # <<>>
        THEN IF FloatOk(cleaned)
             THEN [exc |-> "none", val |-> FloatVal(cleaned)]
             ELSE [exc |-> "ValueError", val |-> 0]
        ELSE [exc |-> "none", val |-> 0]

parse_date(value) ==
    LET cleaned == clean_value(value, FALSE)
    IN  IF StrptimeOk(cleaned)
        THEN [exc |-> "none", val |-> DateVal(cleaned[1])]
        ELSE [exc |-> "ValueError", val |-> 0]

\* the f-string ' Komissiya: {commission}'
CommissionSuffix(commission) == <<" ", "Komissiya:", " ", ToString(commission)>>

\* create_transaction that labels every description with the commission
create_transaction_always_suffix(expense, commission, date, description) ==
    [expense |-> expense + commission,
     date |-> date,
     description |-> Remove(description, BOILERPLATE) \o CommissionSuffix(commission)]

create_transaction(expense, commission, date, description) ==
    LET total == expense + commission
        desc == Remove(description, BOILERPLATE)
    IN  [expense |-> total,
         date |-> date,
         description |-> IF commission # 0
                         THEN desc \o CommissionSuffix(commission)
                         ELSE desc]

(* ------------------------------ sorting ------------------------------- *)

\* number of entries of a date-sorted list that an entry dated d goes after,
\* were it to go before its equals
InsertPointBeforeEquals(sorted, d) ==
    Cardinality({i \in 1..Len(sorted) : sorted[i].tx.date < d})

\* number of entries of a date-sorted list that an entry dated d goes after
InsertPoint(sorted, d) ==
    Cardinality({i \in 1..Len(sorted) : sorted[i].tx.date <= d})

RECURSIVE SortInto(_, _)
SortInto(sorted, rest) ==
    IF rest = <<>> THEN sorted
    ELSE LET e == Head(rest)
             k == InsertPoint(sorted, e.tx.date)
         IN  SortInto(SubSeq(sorted, 1, k) \o <<e>> \o SubSeq(sorted, k + 1, Len(sorted)),
                      Tail(rest))

\* operations.sort(key=attrgetter('date')): stable, ascending
sort_by_date(ops) == SortInto(<<>>, ops)

(* --------------------------- row processing --------------------------- *)

\* any(row)
AnyCell(row) == \E i \in 1..Len(row) : Truthy(row[i])

\* exception types the row loops catch
RowCaughtNoValueError == {"IndexError", "TypeError"}

RowCaught == {"IndexError", "TypeError", "ValueError"}

\* exception types the document-level handler of a parser catches
DocCaught == {"OSError"}

NoFields == [exc |-> "none", expense |-> 0, commission |-> 0, date |-> 0,
             description |-> <<>>]

\* the four field reads of a row loop, in the order the code evaluates them;
\* di is the Python index of the description cell
parse_fields(row, di) ==
    IF Len(row) < 5 THEN [NoFields EXCEPT !.exc = "IndexError"]
    ELSE LET e == parse_amount(row[5]) IN
    IF e.exc # "none" THEN [NoFields EXCEPT !.exc = e.exc]
    ELSE IF Len(row) < 6 THEN [NoFields EXCEPT !.exc = "IndexError"]
    ELSE LET c == parse_amount(row[6]) IN
    IF c.exc # "none" THEN [NoFields EXCEPT !.exc = c.exc]
    ELSE LET d == parse_date(row[1]) IN
    IF d.exc # "none" THEN [NoFields EXCEPT !.exc = d.exc]
    ELSE IF Len(row) < di + 1 THEN [NoFields EXCEPT !.exc = "IndexError"]
    ELSE [exc |-> "none", expense |-> e.val, commission |-> c.val,
          date |-> d.val, description |-> clean_value(row[di + 1], FALSE)]

\* a debit row filter that only looks for an empty first cell
debit_candidate_no_pattern(row) ==
    /\ ~(row = <<>> \/ ~AnyCell(row))
    /\ Truthy(row[1])

\* the two `continue` tests in front of the debit try block
debit_candidate(row) ==
    /\ ~(row = <<>> \/ ~AnyCell(row))
    /\ ~(~Truthy(row[1]) \/ ~DATE_PATTERN_search(row[1]))

\* the `continue` test in front of the credit try block
credit_candidate(row) == ~(row = <<>> \/ ~Truthy(row[1]))

\* a debit removal test that forgets the transfers
debit_removed_zero_only(expense, description) == expense = 0

\* 'expense == 0 or <transfer phrase> in description'
debit_removed(expense, description) ==
    expense = 0 \/ Contains(description, TRANSFER)

\* the header test of the debit header search, for one row
is_debit_header(row) ==
    row # <<>> /\ \E i \in 1..Len(row) : Truthy(row[i]) /\ Contains(row[i], <<DATE_HEADER>>)

RECURSIVE JoinTruthy(_)
\* " ".join(filter(None, row))
JoinTruthy(row) ==
    IF row = <<>> THEN <<>>
    ELSE LET rest == JoinTruthy(Tail(row)) IN
         IF ~Truthy(Head(row)) THEN rest
         ELSE IF \E i \in 1..Len(Tail(row)) : Truthy(Tail(row)[i])
              THEN Head(row) \o <<" ">> \o rest
              ELSE Head(row)

\* the credit header test on table[0]
credit_header_ok(header) ==
    ~(Contains(header, <<DATA_IZMENENIYA>>) \/ ~Contains(header, <<PROVEDENA>>))

\* a statement is written without looking at the list
has_operations_always(ops) == TRUE

\* 'if not operations: return' of process_statement and of save_to_csv
has_operations(ops) == ops # <<>>

(* --------------------------- sample inputs ---------------------------- *)

dA == <<"01.03.2024", " ", "10:00:00">>
dB == <<"02.03.2024", " ", "10:00:00">>
\* a date cell wrapped over two lines
dWrap == <<"01.03.2024", "\n", "10:00:00">>
\* a date cell with leading whitespace
dLead == <<" ", "02.03.2024", " ", "10:00:00">>
\* matches DATE_PATTERN, is no date
dBad == <<"31.02.2024", " ", "10:00:00">>
\* footer text that mentions a date
dFooter == <<"Itogo", " ", "01.03.2024">>
dTitle == <<"Vypiska">>

sWord == <<"kofe">>
sBoiler == BOILERPLATE \o <<"kofe">>
\* the transfer phrase, wrapped over two lines
sTransfer == <<"Perevod", " ", "mezhdu", "\n", "svoimi", " ", "schetami">>

MkRow(d, a, c, s) == <<d, None, None, None, a, c, s>>

SampleRows ==
    { MkRow(dA, <<"2">>, None, sBoiler),
      MkRow(dB, <<"2">>, <<"1">>, sBoiler),
      MkRow(dWrap, <<"-", "3">>, <<>>, sWord),
      MkRow(dLead, <<"2", ",", "0", " ", "R", "U", "B">>, None, sWord),
      MkRow(dA, <<"2">>, None, sWord) \o <<sWord>>,
      MkRow(dA, <<"2">>, None, sTransfer),
      MkRow(dB, None, <<"3">>, sWord),
      MkRow(dA, <<"2">>, <<"x">>, sWord),
      MkRow(dBad, <<"2">>, None, sWord),
      <<dA, None, None>>,
      <<dFooter, None>>,
      <<dTitle, None>>,
      <<>>,
      << <<DATE_HEADER>>, <<"Summa">> >>,
      << <<"Data">>, <<PROVEDENA>> >>,
      << <<PROVEDENA>>, <<ZADOLZHEN>> >>,
      << <<DATA_IZMENENIYA>>, <<PROVEDENA>> >> }

\* exceptions the PDF library raises while opening or reading a document
ExcKinds == {"OSError", "PDFSyntaxError"}

(* ----------------------- vocabulary of the claims --------------------- *)

UnparsableAmount(cell) ==
    LET t == clean_value(cell, TRUE) IN t # <<>> /\ ~FloatOk(t)

UnparsableDate(cell) == ~StrptimeOk(clean_value(cell, FALSE))

\* too few cells, an unparsable amount or an unparsable date
MalformedRow(row, di) ==
    \/ Len(row) < di + 1
    \/ UnparsableAmount(row[5])
    \/ UnparsableAmount(row[6])
    \/ UnparsableDate(row[1])

\* the first 10 characters of the cell are a DD.MM.YYYY text
FirstTenMatch(cell) == Truthy(cell) /\ cell[1] \in DateTokens

NoLast ==
    [kind |-> "none", row |-> <<>>, at |-> 0, classified |-> FALSE,
     exc |-> "none", appended |-> FALSE, before |-> 0,
     malformed |-> FALSE, good |-> FALSE, calls |-> <<>>,
     args |-> NoFields, tx |-> create_transaction(0, 0, 0, <<>>)]

(* ------------------------------ the program --------------------------- *)

Init ==
    /\ pc = "main"
    /\ fidx = 1
    /\ nrows = 0
    /\ tlen = 0
    /\ ridx = 0
    /\ header_row = -1
    /\ desc_idx = 6
    /\ operations = <<>>
    /\ created = <<>>
    /\ returned = <<>>
    /\ exported = <<>>
    /\ written = [f \in 1..NFiles |-> FALSE]
    /\ outcome = "pending"
    /\ uncaught = "none"
    /\ badAt = -1
    /\ last = NoLast

\* the variables of one parser call, as they are when the call begins
FreshStatement ==
    /\ nrows' = 0
    /\ tlen' = 0
    /\ ridx' = 0
    /\ header_row' = -1
    /\ desc_idx' = 6
    /\ operations' = <<>>
    /\ created' = <<>>
    /\ badAt' = -1
    /\ last' = NoLast

\* the parser returns ret; process_statement and save_to_csv run to their end
\* and main moves on to the next file
ReturnToMain(ret, emptyOutcome, saveOk) ==
    /\ returned' = ret
    /\ IF has_operations(ret) /\ has_operations(ret)
       THEN IF saveOk
            THEN /\ written' = [written EXCEPT ![fidx] = TRUE]
                 /\ exported' = ret
                 /\ outcome' = "saved"
            ELSE /\ UNCHANGED written
                 /\ exported' = <<>>
                 /\ outcome' = "save_failed"
       ELSE /\ UNCHANGED written
            /\ exported' = <<>>
            /\ outcome' = emptyOutcome
    /\ pc' = "main"
    /\ fidx' = fidx + 1
    /\ UNCHANGED uncaught

\* exception k leaves the with-block of a parser
Raise(k) ==
    IF k \in DocCaught
    THEN \E saveOk \in BOOLEAN : ReturnToMain(<<>>, "oserror", saveOk)
    ELSE /\ pc' = "crashed"
         /\ uncaught' = k
         /\ outcome' = "raised"
         /\ returned' = <<>>
         /\ exported' = <<>>
         /\ UNCHANGED <<fidx, written>>

\* main: Path(pdf).exists() is false
FileMissing ==
    /\ pc = "main"
    /\ fidx <= NFiles
    /\ FreshStatement
    /\ outcome' = "missing"
    /\ fidx' = fidx + 1
    /\ returned' = <<>>
    /\ exported' = <<>>
    /\ UNCHANGED <<pc, written, uncaught>>

\* main -> process_statement -> parser: pdfplumber.open succeeds
OpenDocument ==
    /\ pc = "main"
    /\ fidx <= NFiles
    /\ FreshStatement
    /\ pc' = "tables"
    /\ outcome' = "running"
    /\ returned' = <<>>
    /\ exported' = <<>>
    /\ UNCHANGED <<fidx, written, uncaught>>

\* main -> process_statement -> parser: pdfplumber.open raises
OpenFails ==
    /\ pc = "main"
    /\ fidx <= NFiles
    /\ FreshStatement
    /\ \E k \in ExcKinds : Raise(k)

\* pdf.pages / page.extract_tables() raises between two tables
ReadFails ==
    /\ pc = "tables"
    /\ last' = NoLast
    /\ \E k \in ExcKinds : Raise(k)
    /\ UNCHANGED <<nrows, tlen, ridx, header_row, desc_idx, operations,
                   created, badAt>>

\* main: the file list is exhausted
MainExit ==
    /\ pc = "main"
    /\ fidx > NFiles
    /\ pc' = "exit"
    /\ UNCHANGED <<fidx, nrows, tlen, ridx, header_row, desc_idx, operations,
                   created, returned, exported, written, outcome, uncaught,
                   badAt, last>>

\* where the row loop stands after the row at Python index i of the table
AfterRow(i) ==
    /\ ridx' = i + 1
    /\ pc' = IF i + 1 >= tlen THEN "tables" ELSE "rows"

\* parse_debit_pdf: the page iterator yields the next table
NextDebitTable ==
    /\ pc = "tables"
    /\ files[fidx].is_debit
    /\ \E n \in 0..(MaxRows - nrows) :
          /\ tlen' = n
          /\ nrows' = nrows + n
          /\ pc' = IF n = 0 THEN "tables" ELSE "header"
    /\ ridx' = 0
    /\ header_row' = -1
    /\ last' = NoLast
    /\ UNCHANGED <<fidx, desc_idx, operations, created, returned, exported,
                   written, outcome, uncaught, badAt>>

\* parse_debit_pdf: the header search looks at the row at index ridx
HeaderSearch ==
    /\ pc = "header"
    /\ \E row \in SampleRows :
          IF is_debit_header(row)
          THEN /\ header_row' = ridx
               /\ AfterRow(ridx)
          ELSE /\ header_row' = -1
               /\ ridx' = ridx + 1
               /\ pc' = IF ridx + 1 >= tlen THEN "tables" ELSE "header"
    /\ last' = NoLast
    /\ UNCHANGED <<fidx, nrows, tlen, desc_idx, operations, created, returned,
                   exported, written, outcome, uncaught, badAt>>

\* parse_credit_pdf: the page iterator yields the next table, whose first row
\* is tested as the header
NextCreditTable ==
    /\ pc = "tables"
    /\ ~files[fidx].is_debit
    /\ \E n \in 0..(MaxRows - nrows) :
          /\ tlen' = n
          /\ nrows' = nrows + n
          /\ IF n < 2
             THEN /\ pc' = "tables"
                  /\ ridx' = 0
                  /\ header_row' = -1
                  /\ UNCHANGED desc_idx
             ELSE \E row \in SampleRows :
                     LET header == JoinTruthy(row) IN
                     IF credit_header_ok(header)
                     THEN /\ desc_idx' = IF Contains(header, <<ZADOLZHEN>>) THEN 7 ELSE 6
                          /\ header_row' = 0
                          /\ AfterRow(0)
                     ELSE /\ pc' = "tables"
                          /\ ridx' = 0
                          /\ header_row' = -1
                          /\ UNCHANGED desc_idx
    /\ last' = NoLast
    /\ UNCHANGED <<fidx, operations, created, returned, exported, written,
                   outcome, uncaught, badAt>>

\* one pass of a row loop over `row`: cand is the outcome of the `continue`
\* tests, di the index of the description cell, removes whether the loop drops
\* zero amounts and transfers
RowStep(row, cand, di, removes) ==
    LET f == parse_fields(row, di)
        raised == cand /\ f.exc # "none"
        removed == cand /\ ~raised /\ removes
                   /\ debit_removed(f.expense, f.description)
        appended == cand /\ ~raised /\ ~removed
        tx == create_transaction(f.expense, f.commission, f.date, f.description)
        entry == [n |-> Len(created) + 1, tx |-> tx]
        malformed == MalformedRow(row, di)
        calls == IF ~cand \/ Len(row) < 5 THEN <<>>
                 ELSE IF parse_amount(row[5]).exc # "none" \/ Len(row) < 6
                      THEN << [value |-> row[5], out |-> parse_amount(row[5])] >>
                      ELSE << [value |-> row[5], out |-> parse_amount(row[5])],
                              [value |-> row[6], out |-> parse_amount(row[6])] >>
    IN  /\ last' = [kind |-> IF removes THEN "debit" ELSE "credit",
                    row |-> row, at |-> ridx, classified |-> cand,
                    exc |-> IF raised THEN f.exc ELSE "none",
                    appended |-> appended, before |-> Len(created),
                    malformed |-> malformed,
                    good |-> ~malformed
                             /\ ~(removes /\ (parse_amount(row[5]).val = 0
                                    \/ Contains(clean_value(row[di + 1], FALSE), TRANSFER))),
                    calls |-> calls,
                    args |-> IF appended THEN f ELSE NoFields,
                    tx |-> IF appended THEN tx ELSE NoLast.tx]
        /\ badAt' = IF malformed THEN Len(created) ELSE badAt
        /\ operations' = IF appended THEN Append(operations, entry) ELSE operations
        /\ created' = IF appended THEN Append(created, entry) ELSE created
        /\ IF raised /\ f.exc \notin RowCaught
           THEN /\ Raise(f.exc)
                /\ UNCHANGED ridx
           ELSE /\ AfterRow(ridx)
                /\ UNCHANGED <<fidx, returned, exported, written, outcome, uncaught>>
        /\ UNCHANGED <<nrows, tlen, header_row, desc_idx>>

\* parse_debit_pdf: the body of the row loop, for one row after the header
DebitRow ==
    /\ pc = "rows"
    /\ files[fidx].is_debit
    /\ \E row \in SampleRows : RowStep(row, debit_candidate(row), 6, TRUE)

\* parse_credit_pdf: the body of the row loop, for one row after table[0]
CreditRow ==
    /\ pc = "rows"
    /\ ~files[fidx].is_debit
    /\ \E row \in SampleRows : RowStep(row, credit_candidate(row), desc_idx, FALSE)

\* the page iterator is exhausted: the parser sorts and returns,
\* process_statement saves
Finish ==
    /\ pc = "tables"
    /\ LET sorted == sort_by_date(operations) IN
          /\ operations' = sorted
          /\ \E saveOk \in BOOLEAN : ReturnToMain(sorted, "empty", saveOk)
    /\ last' = NoLast
    /\ UNCHANGED <<nrows, tlen, ridx, header_row, desc_idx, created, badAt>>

Next ==
    \/ FileMissing
    \/ OpenDocument
    \/ OpenFails
    \/ ReadFails
    \/ NextDebitTable
    \/ HeaderSearch
    \/ NextCreditTable
    \/ DebitRow
    \/ CreditRow
    \/ Finish
    \/ MainExit

Spec == Init /\ [][Next]_vars

(* ------------------------------- claims ------------------------------- *)

\* the parser of the file main handled last has returned its list
Returned ==
    /\ pc \in {"main", "exit"}
    /\ outcome \in {"empty", "saved", "save_failed", "oserror"}

\* the parser of the file main handled last ran through all its tables
ReturnedNormally ==
    /\ pc \in {"main", "exit"}
    /\ outcome \in {"empty", "saved", "save_failed"}

\* ascending by date, equal dates in the order the rows were met
SortedStable(ops) ==
    \A i, j \in 1..Len(ops) :
        i < j => /\ ops[i].tx.date <= ops[j].tx.date
                 /\ ops[i].tx.date = ops[j].tx.date => ops[i].n < ops[j].n

\* C1: the list a parser returns, and the list that is exported, is
\* non-decreasing by date, and transactions of equal date keep the order in
\* which their rows were met.
C1_SortedStable ==
    /\ SortedStable(returned)
    /\ SortedStable(exported)
    /\ ReturnedNormally => Len(returned) = Len(created)
    /\ outcome = "saved" => exported = returned

C1_Witness ==
    /\ outcome = "saved"
    /\ Len(exported) >= 3
    /\ created # returned
    /\ \E i, j \in 1..Len(returned) : i # j /\ returned[i].tx.date = returned[j].tx.date

\* C2: the transaction create_transaction returns has expense + commission as
\* its expense; with a zero commission its description is the input with the
\* boilerplate phrase removed and nothing appended, with a non-zero commission
\* the commission suffix is appended.
C2_CreateTransaction ==
    last.appended =>
        /\ operations[Len(operations)].tx = last.tx
        /\ last.tx.expense = last.args.expense + last.args.commission
        /\ last.tx.date = last.args.date
        /\ last.args.commission = 0 =>
               last.tx.description = Remove(last.args.description, BOILERPLATE)
        /\ last.args.commission # 0 =>
               last.tx.description =
                   Remove(last.args.description, BOILERPLATE)
                       \o CommissionSuffix(last.args.commission)

C2_Witness ==
    /\ last.appended
    /\ last.args.commission = 0
    /\ Contains(last.args.description, BOILERPLATE)
    /\ ~Contains(last.tx.description, <<"Komissiya:">>)
    /\ \E i \in 1..Len(created) : Contains(created[i].tx.description, <<"Komissiya:">>)

\* the row's amount cell parses to zero
ZeroAmount(row) ==
    Len(row) >= 5 /\ parse_amount(row[5]) = [exc |-> "none", val |-> 0]

\* the row's cleaned description contains the transfer phrase
TransferRow(row) ==
    Len(row) >= 7 /\ Contains(clean_value(row[7], FALSE), TRANSFER)

\* C3: in debit processing a row whose amount parses to zero, or whose cleaned
\* description contains the transfer phrase, produces no transaction.
C3_DebitRemoved ==
    (last.kind = "debit" /\ (ZeroAmount(last.row) \/ TransferRow(last.row))) =>
        /\ ~last.appended
        /\ operations = created
        /\ Len(created) = last.before

C3_Witness ==
    /\ last.kind = "debit"
    /\ last.classified
    /\ last.exc = "none"
    /\ TransferRow(last.row)
    /\ ~ZeroAmount(last.row)
    /\ ~last.appended
    /\ Len(operations) > 0

\* C4: a malformed row (too few cells, unparsable amount, unparsable date)
\* never aborts the statement: it yields no transaction, no row exception
\* leaves the parser, every well-formed expense row yields its transaction,
\* and the list returned after the last table holds all of them.
C4_MalformedRowSkipped ==
    /\ uncaught \notin {"IndexError", "TypeError", "ValueError"}
    /\ (last.kind # "none" /\ last.malformed) =>
           /\ ~last.appended
           /\ Len(created) = last.before
           /\ pc \in {"rows", "tables"}
    /\ (last.kind # "none" /\ last.good) =>
           /\ last.appended
           /\ Len(created) = last.before + 1
           /\ pc \in {"rows", "tables"}
    /\ ReturnedNormally =>
           \A i \in 1..Len(created) :
               \E j \in 1..Len(returned) : returned[j] = created[i]

C4_Witness ==
    /\ ReturnedNormally
    /\ fidx = 3
    /\ badAt > 0
    /\ badAt < Len(returned)

\* C5 as claimed: parse_amount never raises.
C5_NeverRaises ==
    \A i \in 1..Len(last.calls) : last.calls[i].out.exc = "none"

\* C5 as amended: parse_amount returns a number for null, empty and numeric
\* text, 0 when the cleaned text is empty; for a non-empty text that is not a
\* number it raises ValueError, which the row loop catches: the row yields no
\* transaction and the loop goes on.
C5_RaisesOnGarbage ==
    \A i \in 1..Len(last.calls) :
        LET call == last.calls[i]
            text == clean_value(call.value, TRUE)
        IN  /\ call.out.exc \in {"none", "ValueError"}
            /\ call.out.exc = "none" <=> (text = <<>> \/ FloatOk(text))
            /\ text = <<>> => call.out.val = 0
            /\ call.out.exc = "ValueError" =>
                   /\ ~last.appended
                   /\ last.exc = "ValueError"
                   /\ pc \in {"rows", "tables"}
                   /\ uncaught = "none"

C5_Witness ==
    /\ Len(last.calls) = 2
    /\ last.calls[1].out.exc = "none"
    /\ last.calls[2].out.exc = "ValueError"
    /\ last.calls[2].value = <<"x">>
    /\ Len(operations) > 0

\* C6: an output file is written only if at least one transaction was
\* collected; an empty result ends process_statement normally and leaves the
\* output file untouched.
C6_NoEmptyFile ==
    /\ \A f \in 1..NFiles : written[f] => f < fidx
    /\ (pc \in {"main", "exit"} /\ fidx > 1 /\ written[fidx - 1]) =>
           Len(returned) > 0
    /\ outcome \in {"empty", "oserror"} =>
           /\ pc \in {"main", "exit"}
           /\ returned = <<>>
           /\ ~written[fidx - 1]
           /\ uncaught = "none"

C6_Witness ==
    /\ outcome = "empty"
    /\ badAt >= 0
    /\ ~written[fidx - 1]

\* C7 as claimed: every transaction of a returned list has a non-negative
\* expense.
C7_NonNegativeExpense ==
    \A i \in 1..Len(returned) : returned[i].tx.expense >= 0

\* C8 as claimed: a document-level failure (missing file, failing open,
\* failing read) raises nothing out of process_statement, writes no file for
\* that document, and leaves main running.
C8_DocumentFailureRecovered ==
    outcome \in {"missing", "oserror", "raised"} =>
        /\ uncaught = "none"
        /\ pc # "crashed"
        /\ \A f \in fidx..NFiles : ~written[f]
        /\ fidx > 1 => ~written[fidx - 1]

\* C9 as claimed: a transaction that was appended to the working list is found
\* exactly once, unchanged, in the list the parser returns.
C9_NeverRemoved ==
    Returned =>
        \A i \in 1..Len(created) :
            Cardinality({j \in 1..Len(returned) : returned[j] = created[i]}) = 1

\* C10 as claimed: a row is classified only if it lies after the recognised
\* header row and the first 10 characters of its first cell are a DD.MM.YYYY
\* text.
C10_FirstTenFilter ==
    last.classified =>
        /\ header_row >= 0
        /\ last.at > header_row
        /\ FirstTenMatch(last.row[1])

\* C10 as amended: a row is classified only if it lies after the recognised
\* header row and its first cell is non-empty; in debit processing the first
\* cell must also contain a DD.MM.YYYY text, anywhere in the cell; credit
\* processing tests no date pattern.
C10_HeaderAndFirstCell ==
    /\ last.classified =>
           /\ header_row >= 0
           /\ last.at > header_row
           /\ Truthy(last.row[1])
           /\ last.kind = "debit" => DATE_PATTERN_search(last.row[1])
    /\ last.kind # "none" => header_row >= 0 /\ last.at > header_row
    /\ pc = "rows" => header_row >= 0 /\ ridx > header_row

C10_Witness ==
    /\ last.kind = "debit"
    /\ last.classified
    /\ last.at > header_row
    /\ header_row > 0
    /\ ~FirstTenMatch(last.row[1])
    /\ last.appended

====
